---- MODULE Spec2Model ----
(***************************************************************************)
(* pretty-damn-quick: the line/offset model, the marker insert/merge       *)
(* protocol and the three formatting strategies driven by runPrettier.     *)
(*                                                                         *)
(* A text is a sequence of one-character strings.  The formatting engine   *)
(* (prettier), the diff source (git) and the file system are external;     *)
(* what they return is drawn from small sets.                              *)
(***************************************************************************)
EXTENDS Integers, Sequences, FiniteSets, TLC

VARIABLES
    \* ---- the marker protocol exercised on its own (SpecMarker) ----
    mPc,          \* "start" | "inserted" | "formatted" | "merged" | "off"
    mText,        \* fileContent handed to insertMarkers
    mRanges,      \* ranges handed to insertMarkers
    mParser,      \* parser id
    mMarked,      \* outcome of insertMarkers: [ok, result]
    mFormatted,   \* the text the formatting engine returned for the marked text
    mMerged,      \* outcome of mergeMarkedSections: [ok, text]
    \* ---- a run of runPrettier (Spec) ----
    pc,           \* "start" | "loop" | "resolved" | "rejectedExiting" |
                  \* "rejectedUnformatted" | "noFiles" | "off"
    options,      \* PrettierOptionsCLI: [check, staged, lines]
    totalLinesVariant, \* which LineOffsets.totalLines() the build links: 1 | 2
    targetFiles,  \* result of resolveTargetFiles
    idx,          \* position of the for-loop in targetFiles (1-based, next file)
    disk,         \* file |-> text
    allOk,
    hasExitingError,
    processed,    \* the files the for-loop has handed to a strategy, in order
    writes,       \* calls of fs.writeFileSync of the run, in order: [file, text, ok]
    watch,        \* the loop iteration that is recorded in `last` (1-based)
    last,         \* what the watched loop iteration did: its inputs and its outcome
    \* ---- one class or function exercised on its own (SpecOffsets,
    \*      SpecRange, SpecTargets) ----
    uPc,          \* "start" | "built" | "called" | "failed" | "off"
    uIn,          \* the arguments
    uOut          \* the object built and what the calls on it returned

mvars == <<mPc, mText, mRanges, mParser, mMarked, mFormatted, mMerged>>
rvars == <<pc, options, totalLinesVariant, targetFiles, idx, disk, allOk,
           hasExitingError, processed, writes, watch, last>>
uvars == <<uPc, uIn, uOut>>
vars == <<mvars, rvars, uvars>>

\* ------------------------------------------------------------------ bounds
MaxLen == 3          \* longest text handed to the marker protocol on its own
MaxLine == 3         \* highest line a range may name (1-based, inclusive lower bound)
MaxRanges == 2       \* most ranges in one list
MaxList == 1         \* longest file list git answers with
MaxDisk == 3         \* most characters the target files hold together, every
                     \* target file after the first counting as two more

Max2(a, b) == IF a > b THEN a ELSE b
Min2(a, b) == IF a < b THEN a ELSE b

\* ------------------------------------------------------------ text helpers
\* String.prototype.slice(a, b): negative indices count from the end, both
\* are clamped to the text.
Slice(s, a, b) ==
    LET n == Len(s)
        from == IF a < 0 THEN Max2(n + a, 0) ELSE Min2(a, n)
        to == IF b < 0 THEN Max2(n + b, 0) ELSE Min2(b, n)
    IN IF from >= to THEN <<>> ELSE SubSeq(s, from + 1, to)

\* String.prototype.slice(a)
SliceFrom(s, a) == Slice(s, a, Len(s))

\* text.split(/\r?\n/)
RECURSIVE SplitLinesFrom(_, _, _)
SplitLinesFrom(text, i, cur) ==
    IF i > Len(text) THEN <<cur>>
    ELSE IF text[i] = "\n" THEN <<cur>> \o SplitLinesFrom(text, i + 1, <<>>)
    ELSE IF text[i] = "\r" /\ i < Len(text) /\ text[i + 1] = "\n"
         THEN <<cur>> \o SplitLinesFrom(text, i + 2, <<>>)
    ELSE SplitLinesFrom(text, i + 1, Append(cur, text[i]))

SplitLines(text) == SplitLinesFrom(text, 1, <<>>)

\* -------------------------------------------------------------- Range
\* the validity test, had it let equal bounds through
RangeOkOrEqual(lower, upper) == lower <= upper

\* new Range(lower, upper): a TypeError unless lower < upper
RangeOk(lower, upper) == lower < upper
Range(lower, upper) == [lower |-> lower, upper |-> upper]
rangeStart(r) == r.lower - 1
rangeEnd(r) == r.upper - 1

\* the containment test, had it taken the upper bound in
isWithinRangeClosed(r, n) == r.lower <= n /\ n <= r.upper

\* range.isWithinRange(n): the lower bound is inclusive, the upper exclusive
isWithinRange(r, n) == r.lower <= n /\ n < r.upper

\* -------------------------------------------------------------- LineOffsets
\* getLineEnding, had it taken every line terminator for one character
getLineEndingOneWide(text, charOffset) == <<" ">>

getLineEnding(text, charOffset) ==
    LET nextTwoChars == Slice(text, charOffset, charOffset + 2)
    IN IF Len(nextTwoChars) = 2 /\ nextTwoChars = <<"\r", "\n">>
       THEN <<"\r", "\n">>
       ELSE <<" ">>

RECURSIVE BuildOffsets(_, _, _, _)
BuildOffsets(text, lines, i, offsets) ==
    IF i > Len(lines) THEN offsets
    ELSE LET lineWidth == Len(lines[i])
             previousOffset == offsets[i]
             lineEndingOffset == previousOffset + lineWidth
             lineEndingWidth == Len(getLineEnding(text, lineEndingOffset))
         IN BuildOffsets(text, lines, i + 1,
                         Append(offsets, previousOffset + lineWidth + lineEndingWidth))

\* new LineOffsets(text): the offsets array (offsets[k + 1] here is offsets[k] there)
LineOffsets(text) == BuildOffsets(text, SplitLines(text), 1, <<0>>)

\* getOffset, had it clamped the index to the stored entries
getOffsetClamped(offsets, line) ==
    offsets[Min2(Max2(line, 0), Len(offsets) - 1) + 1]

\* this.offsets[line] ?? 0
getOffset(offsets, line) ==
    IF line >= 0 /\ line < Len(offsets) THEN offsets[line + 1] ELSE 0

totalLines1(offsets) == Len(offsets) - 1
totalLines2(offsets) == Len(offsets) - 2

\* -------------------------------------------------------------- markers
\* `__PDQ_MARKER_${PDQ_UUID}_${parser}_PDQ_MARKER__`: a token that occurs in no
\* source text; one character here.
markerId == <<"K">>

\* The comment grammar table; each comment delimiter is one character here.
\* A parser outside the domain has no entry (json, which prettier does infer).
COMMENT_STYLES ==
    [p \in {"typescript", "html", "yaml"} |->
        CASE p = "typescript" -> [line |-> <<"/">>, block |-> << <<"*">>, <<"*">> >>]
          [] p = "html" -> [line |-> <<>>, block |-> << <<"<">>, <<">">> >>]
          [] p = "yaml" -> [line |-> <<"#">>, block |-> <<>>]]

Parsers == {"typescript", "html", "yaml", "json"}

\* getMarker: [ok |-> FALSE] stands for the thrown "Unsupported parser" error
getMarker(parser) ==
    IF parser \in DOMAIN COMMENT_STYLES /\ COMMENT_STYLES[parser].line # <<>>
    THEN [ok |-> TRUE, marker |-> COMMENT_STYLES[parser].line \o markerId]
    ELSE IF parser \in DOMAIN COMMENT_STYLES /\ COMMENT_STYLES[parser].block # <<>>
    THEN [ok |-> TRUE,
          marker |-> COMMENT_STYLES[parser].block[1] \o markerId
                     \o COMMENT_STYLES[parser].block[2]]
    ELSE [ok |-> FALSE, marker |-> <<>>]

\* /\r?\n$/.test(fileContent)
EndsWithNewline(text) == Len(text) > 0 /\ text[Len(text)] = "\n"

\* the for-loop of insertMarkers over ranges[i..]
RECURSIVE InsertLoop(_, _, _, _, _)
InsertLoop(result, ranges, i, offsets, marker) ==
    IF i > Len(ranges) THEN result
    ELSE LET endLine == rangeEnd(ranges[i])
             startLine == rangeStart(ranges[i])
             endOffset == getOffset(offsets, endLine)
             startOffset == getOffset(offsets, startLine)
             r1 == Slice(result, 0, endOffset) \o marker \o <<"\n">>
                   \o SliceFrom(result, endOffset)
             r2 == Slice(r1, 0, startOffset) \o marker \o <<"\n">>
                   \o SliceFrom(r1, startOffset)
         IN InsertLoop(r2, ranges, i + 1, offsets, marker)

\* insertMarkers, had it normalised the text before asking for the marker
insertMarkersNormalisingFirst(fileContent, ranges, parser) ==
    LET m == getMarker(parser)
        normalized == IF ~EndsWithNewline(fileContent)
                      THEN fileContent \o <<"\n">>
                      ELSE fileContent
    IN IF ~m.ok THEN [ok |-> FALSE, result |-> normalized]
       ELSE [ok |-> TRUE,
             result |-> InsertLoop(normalized, ranges, 1, LineOffsets(fileContent),
                                   m.marker)]

\* insertMarkers: ok = FALSE stands for the error thrown by getMarker, and
\* result is then the local `result` as it stands when the error is thrown.
insertMarkers(fileContent, ranges, parser) ==
    LET m == getMarker(parser)
    IN IF ~m.ok THEN [ok |-> FALSE, result |-> fileContent]
       ELSE LET normalized == IF ~EndsWithNewline(fileContent)
                              THEN fileContent \o <<"\n">>
                              ELSE fileContent
                offsets == LineOffsets(fileContent)
            IN [ok |-> TRUE,
                result |-> InsertLoop(normalized, ranges, 1, offsets, m.marker)]

\* One attempt of the marker regex `[ \t]*MARKER[ \t]*\r?\n?` anchored at q
\* (0-based): the index just past the match, or -1.
RECURSIVE SkipBlanks(_, _)
SkipBlanks(text, j) ==
    IF j < Len(text) /\ text[j + 1] \in {" ", "\t"} THEN SkipBlanks(text, j + 1) ELSE j

MatchAt(text, marker, q) ==
    LET j == SkipBlanks(text, q)
    IN IF Slice(text, j, j + Len(marker)) # marker \/ j + Len(marker) > Len(text)
       THEN -1
       ELSE LET k == SkipBlanks(text, j + Len(marker))
                k1 == IF k < Len(text) /\ text[k + 1] = "\r" THEN k + 1 ELSE k
                k2 == IF k1 < Len(text) /\ text[k1 + 1] = "\n" THEN k1 + 1 ELSE k1
            IN k2

\* String.prototype.split with the marker regex: p is where the pending part
\* starts, q where the next match is tried.
RECURSIVE SplitFrom(_, _, _, _)
SplitFrom(text, marker, p, q) ==
    IF q >= Len(text) THEN << Slice(text, p, Len(text)) >>
    ELSE LET e == MatchAt(text, marker, q)
         IN IF e = -1 \/ e = p
            THEN SplitFrom(text, marker, p, q + 1)
            ELSE << Slice(text, p, q) >> \o SplitFrom(text, marker, e, e)

splitOnMarker(text, marker) == SplitFrom(text, marker, 0, 0)

\* originalParts.map((part, i) => (i % 2 === 1 ? formattedParts[i] : part)).join("")
RECURSIVE JoinParts(_, _, _)
JoinParts(originalParts, formattedParts, i) ==
    IF i > Len(originalParts) THEN <<>>
    ELSE (IF (i - 1) % 2 = 1 THEN formattedParts[i] ELSE originalParts[i])
         \o JoinParts(originalParts, formattedParts, i + 1)

\* mergeMarkedSections, had it taken the odd segments from the original
mergeMarkedSectionsSwapped(originalFile, formattedFile, parser) ==
    LET m == getMarker(parser)
    IN IF ~m.ok THEN [ok |-> FALSE, error |-> "unsupported", text |-> <<>>]
       ELSE LET originalParts == splitOnMarker(originalFile, m.marker)
                formattedParts == splitOnMarker(formattedFile, m.marker)
            IN IF Len(originalParts) # Len(formattedParts)
               THEN [ok |-> FALSE, error |-> "mismatch", text |-> <<>>]
               ELSE [ok |-> TRUE, error |-> "none",
                     text |-> JoinParts(formattedParts, originalParts, 1)]

\* mergeMarkedSections, had it not compared the segment counts
mergeMarkedSectionsUnchecked(originalFile, formattedFile, parser) ==
    LET m == getMarker(parser)
    IN IF ~m.ok THEN [ok |-> FALSE, error |-> "unsupported", text |-> <<>>]
       ELSE LET originalParts == splitOnMarker(originalFile, m.marker)
                formattedParts == splitOnMarker(formattedFile, m.marker)
            IN IF Len(originalParts) # Len(formattedParts)
               THEN [ok |-> TRUE, error |-> "none", text |-> originalFile]
               ELSE [ok |-> TRUE, error |-> "none",
                     text |-> JoinParts(originalParts, formattedParts, 1)]

\* mergeMarkedSections: ok = FALSE stands for a thrown error
\* ("unsupported" from getMarker, "mismatch" for the marker count)
mergeMarkedSections(originalFile, formattedFile, parser) ==
    LET m == getMarker(parser)
    IN IF ~m.ok THEN [ok |-> FALSE, error |-> "unsupported", text |-> <<>>]
       ELSE LET originalParts == splitOnMarker(originalFile, m.marker)
                formattedParts == splitOnMarker(formattedFile, m.marker)
            IN IF Len(originalParts) # Len(formattedParts)
               THEN [ok |-> FALSE, error |-> "mismatch", text |-> <<>>]
               ELSE [ok |-> TRUE, error |-> "none",
                     text |-> JoinParts(originalParts, formattedParts, 1)]
\* -------------------------------------------------------- formatting engine
\* prettier.format is external: what it does to a text is one of these
\* behaviours.  The throwing ones differ in what runPrettier's catch sees.
Returning == {"id", "upper", "upperRange", "indent", "dropId"}
Throwing == {"throwSyntax", "throwPrettier", "throwOther"}
Behaviours == Returning \cup Throwing \cup {"chokeOnMarker"}

Chars(text) == {text[i] : i \in 1..Len(text)}

UpperChar(c) == IF c = "a" THEN "A" ELSE c

RECURSIVE IndentFrom(_, _)
IndentFrom(text, i) ==
    IF i > Len(text) THEN <<>>
    ELSE (IF (i = 1 \/ text[i - 1] = "\n") /\ text[i] \notin {"\n", "\r"}
          THEN <<" ", text[i]>> ELSE <<text[i]>>)
         \o IndentFrom(text, i + 1)

RECURSIVE DropFirst(_, _)
DropFirst(text, c) ==
    IF text = <<>> THEN <<>>
    ELSE IF Head(text) = c THEN Tail(text)
    ELSE <<Head(text)>> \o DropFirst(Tail(text), c)

\* prettier.format(text, {rangeStart, rangeEnd}) for a behaviour b: the text it
\* resolves to ([ok |-> TRUE]) or the kind of error it throws.
\*   id          returns the text as it is
\*   upper       rewrites every "a", whatever range was asked for
\*   upperRange  rewrites the "a"s at offsets rangeStart <= i < rangeEnd (from, to)
\*   indent      puts a blank in front of every non-empty line
\*   dropId      loses the first marker id (a comment the engine rewrote)
\*   chokeOnMarker  a SyntaxError on a text that holds a marker id, upperRange
\*               on any other text
\*   throw...    throws: a SyntaxError, an Error whose stack mentions
\*               "prettier", an Error whose stack does not
format(b, text, from, to) ==
    CASE b = "id" -> [ok |-> TRUE, text |-> text, error |-> "none"]
      [] b = "upper" ->
            [ok |-> TRUE, error |-> "none",
             text |-> [i \in 1..Len(text) |-> UpperChar(text[i])]]
      [] b = "upperRange" ->
            [ok |-> TRUE, error |-> "none",
             text |-> [i \in 1..Len(text) |->
                          IF from <= i - 1 /\ i - 1 < to
                          THEN UpperChar(text[i]) ELSE text[i]]]
      [] b = "indent" -> [ok |-> TRUE, error |-> "none", text |-> IndentFrom(text, 1)]
      [] b = "dropId" -> [ok |-> TRUE, error |-> "none", text |-> DropFirst(text, "K")]
      [] b = "chokeOnMarker" /\ "K" \notin Chars(text) ->
            [ok |-> TRUE, error |-> "none",
             text |-> [i \in 1..Len(text) |->
                          IF from <= i - 1 /\ i - 1 < to
                          THEN UpperChar(text[i]) ELSE text[i]]]
      [] b = "chokeOnMarker" /\ "K" \in Chars(text) ->
            [ok |-> FALSE, error |-> "throwSyntax", text |-> <<>>]
      [] OTHER -> [ok |-> FALSE, error |-> b, text |-> <<>>]

\* prettier.format(text, {filepath}) without a range: the whole text
formatWhole(b, text) == format(b, text, 0, Len(text))

\* ---------------------------------------------------------------- inputs
RECURSIVE TextsUpTo(_, _)
TextsUpTo(alphabet, n) ==
    IF n = 0 THEN {<<>>}
    ELSE LET shorter == TextsUpTo(alphabet, n - 1)
         IN shorter \cup {Append(t, c) : t \in {u \in shorter : Len(u) = n - 1}, c \in alphabet}

\* every Range the constructor accepts with 1 <= lower and upper <= MaxLine + 1
Ranges ==
    {Range(p[1], p[2]) :
        p \in {q \in (1..MaxLine) \X (2..(MaxLine + 1)) : RangeOk(q[1], q[2])}}

Overlap(r1, r2) == r1.lower < r2.upper /\ r2.lower < r1.upper

\* lists of pairwise non-overlapping ranges, in every order of presentation
RECURSIVE RangeListsUpTo(_)
RangeListsUpTo(n) ==
    IF n = 0 THEN {<<>>}
    ELSE LET shorter == RangeListsUpTo(n - 1)
         IN shorter \cup
            {Append(p[1], p[2]) :
                p \in {x \in shorter : Len(x) = n - 1} \X Ranges}

NonOverlapping(l) ==
    \A i, j \in 1..Len(l) : i # j => ~Overlap(l[i], l[j])

RangeLists == {l \in RangeListsUpTo(MaxRanges) : NonOverlapping(l)}

\* ------------------------------------------------- the marker protocol alone
MarkerAlphabet == {"a", " ", "\n", "\r"}
NoOutcome == [ok |-> FALSE, error |-> "none", text |-> <<>>]

UnitOff == uPc = "off" /\ uIn = <<>> /\ uOut = <<>>

RunOff ==
    /\ pc = "off" /\ options = [check |-> FALSE, staged |-> FALSE, lines |-> "false"]
    /\ totalLinesVariant = 1 /\ targetFiles = <<>> /\ idx = 1
    /\ disk = <<>> /\ allOk = TRUE /\ hasExitingError = FALSE
    /\ processed = <<>> /\ writes = <<>> /\ watch = 0 /\ last = <<>>

MarkerInit ==
    /\ mPc = "start"
    /\ mText \in TextsUpTo(MarkerAlphabet, MaxLen)
    /\ mRanges \in RangeLists
    /\ mParser \in Parsers
    /\ mMarked = [ok |-> FALSE, result |-> <<>>]
    /\ mFormatted = <<>>
    /\ mMerged = NoOutcome
    /\ RunOff
    /\ UnitOff

\* const markedText = insertMarkers(originalText, ranges, parser)
InsertMarkers ==
    /\ mPc = "start"
    /\ mMarked' = insertMarkers(mText, mRanges, mParser)
    /\ mPc' = IF mMarked'.ok THEN "inserted" ELSE "failed"
    /\ UNCHANGED <<mText, mRanges, mParser, mFormatted, mMerged, rvars, uvars>>

\* the engine returns some text for the marked text
FormatMarked ==
    /\ mPc = "inserted"
    /\ \E b \in Returning :
          mFormatted' = formatWhole(b, mMarked.result).text
    /\ mPc' = "formatted"
    /\ UNCHANGED <<mText, mRanges, mParser, mMarked, mMerged, rvars, uvars>>

\* mergeMarkedSections(markedText, formattedWithMarkers, parser)
MergeMarked ==
    /\ mPc = "formatted"
    /\ mMerged' = mergeMarkedSections(mMarked.result, mFormatted, mParser)
    /\ mPc' = "merged"
    /\ UNCHANGED <<mText, mRanges, mParser, mMarked, mFormatted, rvars, uvars>>

MarkerNext == InsertMarkers \/ FormatMarked \/ MergeMarked

SpecMarker == MarkerInit /\ [][MarkerNext]_vars

\* ------------------------------------------ properties of the marker protocol
\* the marker of the parser in use (the protocol only goes on when there is one)
TheMarker == getMarker(mParser).marker

\* how often the marker occurs in a text
RECURSIVE CountMarkers(_, _, _)
CountMarkers(text, marker, q) ==
    IF q + Len(marker) > Len(text) THEN 0
    ELSE (IF Slice(text, q, q + Len(marker)) = marker THEN 1 ELSE 0)
         + CountMarkers(text, marker, q + 1)

RECURSIVE Concat(_)
Concat(parts) == IF parts = <<>> THEN <<>> ELSE Head(parts) \o Concat(Tail(parts))

\* the lines of a text; what follows its last line terminator is a line only
\* when it is not empty
Lines(text) ==
    LET l == SplitLines(text)
    IN IF l[Len(l)] = <<>> THEN SubSeq(l, 1, Len(l) - 1) ELSE l

\* every range names lines the text has
InDocument(ranges, text) ==
    \A i \in 1..Len(ranges) : ranges[i].upper <= Len(Lines(text)) + 1

\* the text with "\n" appended when it does not end with a line terminator
WithFinalNewline(text) == IF EndsWithNewline(text) THEN text ELSE text \o <<"\n">>

\* C3: with an identity formatter, merging the marked text with itself gives
\* back the original text (plus "\n" when it did not end with a line
\* terminator), for every list of non-overlapping ranges over the lines of
\* the text, in whatever order the ranges are presented.
C3_RoundTrip ==
    (mPc = "merged" /\ mFormatted = mMarked.result /\ InDocument(mRanges, mText))
        => (mMerged.ok /\ mMerged.text = WithFinalNewline(mText))

\* the text without the lines that hold the marker and nothing else
RECURSIVE RemoveMarkerLines(_, _, _)
RemoveMarkerLines(text, marker, q) ==
    IF q >= Len(text) THEN <<>>
    ELSE IF /\ q = 0 \/ text[q] = "\n"
            /\ Slice(text, q, q + Len(marker) + 1) = marker \o <<"\n">>
         THEN RemoveMarkerLines(text, marker, q + Len(marker) + 1)
         ELSE <<text[q + 1]>> \o RemoveMarkerLines(text, marker, q + 1)

\* C20: for every list of k non-overlapping ranges over the lines of the text,
\* in whatever order, the marked text holds exactly 2k markers, each on a line
\* of its own, and without those lines it is the original text (plus "\n"
\* when it did not end with a line terminator).
C20_MarkersPlaced ==
    (mPc = "inserted" /\ InDocument(mRanges, mText))
        => /\ CountMarkers(mMarked.result, TheMarker, 0) = 2 * Len(mRanges)
           /\ RemoveMarkerLines(mMarked.result, TheMarker, 0) = WithFinalNewline(mText)

\* where line i (from 0) of a text begins, the end of the text standing for
\* a line the text does not have
RECURSIVE ClippedLineStart(_, _, _)
ClippedLineStart(text, i, p) ==
    IF i = 0 \/ p > Len(text) THEN Min2(p - 1, Len(text))
    ELSE ClippedLineStart(text, IF text[p] = "\n" THEN i - 1 ELSE i, p + 1)

\* C28: for a single range with lower >= 1 the marked text is the normalized
\* original with the start marker line put before line `lower` and the end
\* marker line put after line `upper - 1`, the lines clipped to those the
\* text has: the start marker comes first and the two enclose exactly the
\* lines of the range.
C28_SingleRangeEnclosed ==
    (mPc = "inserted" /\ Len(mRanges) = 1) =>
        LET n == WithFinalNewline(mText)
            line == TheMarker \o <<"\n">>
            s == ClippedLineStart(n, mRanges[1].lower - 1, 1)
            e == ClippedLineStart(n, mRanges[1].upper - 1, 1)
        IN mMarked.result
             = Slice(n, 0, s) \o line \o Slice(n, s, e) \o line \o SliceFrom(n, e)

\* C4: when the segment counts agree, the merged text is the concatenation, in
\* order, of the even-indexed segments of the marked original and the
\* odd-indexed segments of the formatted text (indices from 0); when neither
\* text holds a marker it is the marked original itself.
C4_MergeInterleaves ==
    mPc = "merged" =>
        LET o == splitOnMarker(mMarked.result, TheMarker)
            f == splitOnMarker(mFormatted, TheMarker)
        IN /\ Len(o) = Len(f) =>
                 /\ mMerged.ok
                 /\ mMerged.text =
                       Concat([i \in 1..Len(o) |-> IF i % 2 = 1 THEN o[i] ELSE f[i]])
           /\ (CountMarkers(mMarked.result, TheMarker, 0) = 0
               /\ CountMarkers(mFormatted, TheMarker, 0) = 0)
                 => (mMerged.ok /\ mMerged.text = mMarked.result)

C4_Witness ==
    /\ mPc = "merged" /\ mMerged.ok
    /\ Len(splitOnMarker(mMarked.result, TheMarker)) = 5
    /\ mFormatted # mMarked.result
    /\ mMerged.text # mMarked.result

\* C5: when the formatted text holds another number of markers than the
\* marked original, the merge fails with the marker-count mismatch and gives
\* no merged text.
C5_MismatchDetected ==
    (mPc = "merged"
     /\ CountMarkers(mFormatted, TheMarker, 0) # CountMarkers(mMarked.result, TheMarker, 0))
        => (~mMerged.ok /\ mMerged.error = "mismatch" /\ mMerged.text = <<>>)

C5_Witness ==
    /\ mPc = "merged" /\ mMerged.error = "mismatch"
    /\ CountMarkers(mMarked.result, TheMarker, 0) = 2
    /\ CountMarkers(mFormatted, TheMarker, 0) = 1

\* C6: for a parser without a comment style insertMarkers fails, and the text
\* it was working on is still the text it was given: no line terminator
\* appended, no marker inserted.
C6_UnsupportedParserFailsFirst ==
    (mPc # "start" /\ mParser \notin DOMAIN COMMENT_STYLES)
        => (mPc = "failed" /\ ~mMarked.ok /\ mMarked.result = mText)

C6_Witness ==
    /\ mPc = "failed" /\ mParser = "json"
    /\ ~EndsWithNewline(mText) /\ mText # <<>> /\ mRanges # <<>>
\* =================================================================== the run
\* What a strategy has done so far for one file: the file's text on disk, and
\* the log entries, the fs.writeFileSync calls and the prettier.format calls
\* it made, in order; whether it took the whole-document shortcut, and the
\* error its marker path caught ("none" when it caught nothing).
Ctx0(text) ==
    [text |-> text, log |-> <<>>, writes |-> <<>>, calls |-> <<>>,
     shortcut |-> FALSE, markerError |-> "none"]

NoRange == <<>>
Entry(kind, file, range) == [kind |-> kind, file |-> file, range |-> range]
Log(ctx, entry) == [ctx EXCEPT !.log = Append(@, entry)]

\* a strategy returned `ret`, or threw `err`
Done(ctx, ret) == [ret |-> ret, threw |-> "none", ctx |-> ctx]
Thrown(ctx, err) == [ret |-> FALSE, threw |-> err, ctx |-> ctx]

\* await prettier.format(text, {...config, filepath, rangeStart, rangeEnd})
callFormat(ctx, b, text, from, to, whole) ==
    LET r == format(b, text, from, to)
    IN [r |-> r,
        ctx |-> [ctx EXCEPT !.calls =
                    Append(@, [text |-> text, whole |-> whole, from |-> from,
                               to |-> to, ok |-> r.ok, result |-> r.text])]]

\* fs.writeFileSync(file, text, "utf-8"): open (truncating), write, close.  The
\* file system fails never, the first call made for the file, or every call.
\* A failed call throws; it leaves the file as it was (the open failed) or,
\* for "firstPartial", with the part of the text written before the error:
\* its first character.
writeFileSync(ctx, file, text, env) ==
    LET partial == env.writeFails = "firstPartial" /\ ctx.writes = <<>>
        fails == \/ env.writeFails = "always"
                 \/ env.writeFails = "first" /\ ctx.writes = <<>>
                 \/ partial
    IN [ok |-> ~fails,
        ctx |-> [ctx EXCEPT !.writes = Append(@, [file |-> file, text |-> text,
                                                  ok |-> ~fails, partial |-> partial]),
                            !.text = IF ~fails THEN text
                                     ELSE IF partial THEN Slice(text, 0, 1)
                                     ELSE @]]

\* the skip test, had it forgotten the files without a parser
SkipIgnoredOnly(info) == info.ignored

Skip(info) == info.ignored \/ info.inferredParser = "null"

\* processWholeFile, had it written before looking at options.check
processWholeFileWritingFirst(file, ctx, opts, env) ==
    IF opts.staged /\ ~env.cleanIndex
    THEN Done(Log(ctx, Entry("skipped", file, NoRange)), TRUE)
    ELSE LET code == ctx.text
         IN IF Skip(env.info) THEN Done(ctx, TRUE)
            ELSE LET c == callFormat(ctx, env.engine, code, 0, Len(code), TRUE)
                     formatted == c.r.text
                     isNoChange == Len(code) = Len(formatted) /\ code = formatted
                     w == writeFileSync(c.ctx, file, formatted, env)
                 IN IF ~c.r.ok THEN Thrown(c.ctx, c.r.error)
                    ELSE IF isNoChange THEN Done(c.ctx, isNoChange)
                    ELSE IF ~w.ok THEN Thrown(w.ctx, "io")
                    ELSE IF opts.check
                    THEN Done(Log(w.ctx, Entry("checked", file, NoRange)), FALSE)
                    ELSE Done(Log(w.ctx, Entry("formatted", file, NoRange)), isNoChange)

processWholeFile(file, ctx, opts, env) ==
    IF opts.staged /\ ~env.cleanIndex
    THEN Done(Log(ctx, Entry("skipped", file, NoRange)), TRUE)
    ELSE LET code == ctx.text
         IN IF Skip(env.info) THEN Done(ctx, TRUE)
            ELSE LET c == callFormat(ctx, env.engine, code, 0, Len(code), TRUE)
                     formatted == c.r.text
                     isNoChange == Len(code) = Len(formatted) /\ code = formatted
                 IN IF ~c.r.ok THEN Thrown(c.ctx, c.r.error)
                    ELSE IF opts.check
                    THEN IF ~isNoChange
                         THEN Done(Log(c.ctx, Entry("checked", file, NoRange)), FALSE)
                         ELSE Done(c.ctx, isNoChange)
                    ELSE IF ~isNoChange
                    THEN LET w == writeFileSync(c.ctx, file, formatted, env)
                         IN IF ~w.ok THEN Thrown(w.ctx, "io")
                            ELSE Done(Log(w.ctx, Entry("formatted", file, NoRange)),
                                      isNoChange)
                    ELSE Done(c.ctx, isNoChange)

\* lineOffsets.totalLines(), as the build links it
totalLines(variant, offsets) ==
    IF variant = 1 THEN totalLines1(offsets) ELSE totalLines2(offsets)

Abs(x) == IF x < 0 THEN -x ELSE x

\* the shortcut test, had it asked for rangeEnd() to equal totalLines()
FullCoverageExact(ranges, originalText, variant) ==
    /\ Len(ranges) = 1
    /\ rangeStart(ranges[1]) = 0
    /\ rangeEnd(ranges[1]) = totalLines(variant, LineOffsets(originalText))

\* ranges.length === 1 && ranges[0].rangeStart() === 0 &&
\* Math.abs(ranges[0].rangeEnd() - lineOffsets.totalLines()) <= 1
FullCoverage(ranges, originalText, variant) ==
    /\ Len(ranges) = 1
    /\ rangeStart(ranges[1]) = 0
    /\ Abs(rangeEnd(ranges[1]) - totalLines(variant, LineOffsets(originalText))) <= 1

\* the character span of a range: start = lineOffsets.getOffset(startLine),
\* end = lineOffsets.getOffset(endLine) - 1
Span(lineOffsets, range) ==
    [start |-> getOffset(lineOffsets, rangeStart(range)),
     end |-> getOffset(lineOffsets, rangeEnd(range)) - 1]

\* the for-loop, had it handed every formatter call the original text
RECURSIVE RangesLoopFromOriginal(_, _, _, _, _, _, _, _)
RangesLoopFromOriginal(file, ctx, opts, env, originalText, lineOffsets, i, currentText) ==
    IF i > Len(env.ranges)
    THEN [threw |-> "none", ctx |-> ctx, currentText |-> currentText]
    ELSE LET start == getOffset(lineOffsets, rangeStart(env.ranges[i]))
             end == getOffset(lineOffsets, rangeEnd(env.ranges[i])) - 1
             c == callFormat(ctx, env.engine, originalText, start, end, FALSE)
             ctx2 == IF opts.check /\ Slice(originalText, start, end) # Slice(c.r.text, start, end)
                     THEN Log(c.ctx, Entry("checked", file,
                                           <<rangeStart(env.ranges[i]) + 1, rangeEnd(env.ranges[i])>>))
                     ELSE c.ctx
         IN IF ~c.r.ok
            THEN [threw |-> c.r.error, ctx |-> c.ctx, currentText |-> currentText]
            ELSE RangesLoopFromOriginal(file, ctx2, opts, env, originalText, lineOffsets,
                                        i + 1, c.r.text)

\* the for-loop of processFileByRanges over ranges[i..]: the strategy's state
\* after it, the text it ends with, and the error a formatter call threw
RECURSIVE RangesLoop(_, _, _, _, _, _, _, _)
RangesLoop(file, ctx, opts, env, originalText, lineOffsets, i, currentText) ==
    IF i > Len(env.ranges)
    THEN [threw |-> "none", ctx |-> ctx, currentText |-> currentText]
    ELSE LET startLine == rangeStart(env.ranges[i])
             endLine == rangeEnd(env.ranges[i])
             start == Span(lineOffsets, env.ranges[i]).start
             end == Span(lineOffsets, env.ranges[i]).end
             c == callFormat(ctx, env.engine, currentText, start, end, FALSE)
             originalSegment == Slice(originalText, start, end)
             currentSegment == Slice(c.r.text, start, end)
             isNoChange == /\ Len(originalSegment) = Len(currentSegment)
                           /\ originalSegment = currentSegment
             ctx2 == IF opts.check /\ ~isNoChange
                     THEN Log(c.ctx, Entry("checked", file, <<startLine + 1, endLine>>))
                     ELSE c.ctx
         IN IF ~c.r.ok
            THEN [threw |-> c.r.error, ctx |-> c.ctx, currentText |-> currentText]
            ELSE RangesLoop(file, ctx2, opts, env, originalText, lineOffsets,
                            i + 1, c.r.text)

processFileByRanges(file, ctx, opts, env, variant) ==
    IF Skip(env.info) THEN Done(ctx, TRUE)
    ELSE LET originalText == ctx.text
             lineOffsets == LineOffsets(originalText)
         IN IF FullCoverage(env.ranges, originalText, variant)
            THEN processWholeFile(file, [ctx EXCEPT !.shortcut = TRUE], opts, env)
            ELSE LET loop == RangesLoop(file, ctx, opts, env, originalText,
                                        lineOffsets, 1, originalText)
                     currentText == loop.currentText
                     isNoChange == /\ Len(currentText) = Len(originalText)
                                   /\ currentText = originalText
                 IN IF loop.threw # "none" THEN Thrown(loop.ctx, loop.threw)
                    ELSE IF ~opts.check /\ ~isNoChange
                    THEN LET w == writeFileSync(loop.ctx, file, currentText, env)
                         IN IF ~w.ok THEN Thrown(w.ctx, "io")
                            ELSE Done(w.ctx, isNoChange)
                    ELSE Done(loop.ctx, isNoChange)

\* for (const range of ranges) log.checked(file, `${start + 1}-${end}`)
RECURSIVE LogChecked(_, _, _, _)
LogChecked(ctx, file, ranges, i) ==
    IF i > Len(ranges) THEN ctx
    ELSE LogChecked(Log(ctx, Entry("checked", file,
                                   <<rangeStart(ranges[i]) + 1, rangeEnd(ranges[i])>>)),
                    file, ranges, i + 1)

\* the catch block, had it thrown the error on after logging it
markerFallbackRethrowing(file, ctx, opts, env, variant, err) ==
    Thrown(Log([ctx EXCEPT !.markerError = err], Entry("error", file, err)), err)

\* the catch block of processRangesWithMarkers
markerFallback(file, ctx, opts, env, variant, err) ==
    processFileByRanges(file,
                        Log([ctx EXCEPT !.markerError = err], Entry("error", file, err)),
                        opts, env, variant)

processRangesWithMarkers(file, ctx, opts, env, variant) ==
    LET originalText == ctx.text
    IN IF Skip(env.info) THEN Done(ctx, TRUE)
       ELSE IF FullCoverage(env.ranges, originalText, variant)
       THEN processWholeFile(file, [ctx EXCEPT !.shortcut = TRUE], opts, env)
       ELSE LET marked == insertMarkers(originalText, env.ranges, env.info.inferredParser)
                markedText == marked.result
                c == callFormat(ctx, env.engine, markedText, 0, Len(markedText), TRUE)
                merged == mergeMarkedSections(markedText, c.r.text,
                                              env.info.inferredParser)
                mergedText == merged.text
            IN IF ~marked.ok
               THEN markerFallback(file, ctx, opts, env, variant, "unsupported")
               ELSE IF ~c.r.ok
               THEN markerFallback(file, c.ctx, opts, env, variant, c.r.error)
               ELSE IF ~merged.ok
               THEN markerFallback(file, c.ctx, opts, env, variant, merged.error)
               ELSE IF opts.check
               THEN IF mergedText # originalText
                    THEN Done(LogChecked(c.ctx, file, env.ranges, 1), FALSE)
                    ELSE Done(c.ctx, TRUE)
               ELSE IF mergedText # originalText
               THEN LET w == writeFileSync(c.ctx, file, mergedText, env)
                    IN IF ~w.ok
                       THEN markerFallback(file, w.ctx, opts, env, variant, "io")
                       ELSE Done(Log(w.ctx, Entry("formatted", file, NoRange)), TRUE)
               ELSE Done(c.ctx, TRUE)

\* err instanceof SyntaxError || !errMessage.includes("prettier")
MentionsPrettier(err) == err = "throwPrettier"
IsExiting(err) == err = "throwSyntax" \/ ~MentionsPrettier(err)
\* ------------------------------------------------------------ run: inputs
FileNames == <<"a.ts", "b.ts">>
FileAlphabet == {"a", "\n"}
FileTexts == TextsUpTo(FileAlphabet, MaxDisk)

\* prettier.getFileInfo(file)
Infos ==
    {[ignored |-> TRUE, inferredParser |-> "null"],
     [ignored |-> FALSE, inferredParser |-> "null"],
     [ignored |-> FALSE, inferredParser |-> "typescript"],
     [ignored |-> FALSE, inferredParser |-> "json"]}

\* getRangesForDiff(getDiffForFile(file)): ranges over the lines of the text,
\* the empty last line of a text that ends with a line terminator included
DiffRanges(text) ==
    {l \in RangeLists :
        \A i \in 1..Len(l) : l[i].upper <= Len(SplitLines(text)) + 1}

WriteFails == {"never", "first", "firstPartial", "always"}

\* What the collaborators answer while one file is processed.  Answers the
\* strategy never asks for are fixed, so that equal runs are equal states.
\* Each strategy is offered the answers that can make a difference to it: only
\* the marker strategy reads the parser's comment style, sees marker lines in
\* the text handed to the engine, and can attempt a second write.
Envs(text, opts, strategy) ==
    LET clean == IF opts.staged THEN BOOLEAN ELSE {TRUE}
        fails == IF opts.check THEN {"never"}
                 ELSE IF strategy = "markers" THEN WriteFails
                 ELSE {"never", "always"}
        ranges == IF strategy = "whole" THEN {<<>>} ELSE DiffRanges(text)
        engines == IF strategy = "markers" THEN Behaviours
                   ELSE IF strategy = "ranges"
                        THEN {"id", "upper", "upperRange", "indent"} \cup Throwing
                   ELSE {"id", "upper", "indent"} \cup Throwing
        active == {i \in Infos : ~Skip(i) /\ (strategy = "markers"
                                              \/ i.inferredParser = "typescript")}
    IN [cleanIndex : clean, info : {i \in Infos : Skip(i)}, ranges : {<<>>},
        engine : {"id"}, writeFails : {"never"}]
       \cup
       [cleanIndex : clean, info : active, ranges : ranges,
        engine : engines, writeFails : fails]

\* The answers drawn for a file whose iteration is not the watched one: fewer,
\* but enough for every way an iteration can end (true, false, an exiting
\* error, an error that is not exiting).
FewEnvs(text, opts, strategy) ==
    {e \in Envs(text, opts, strategy) :
        /\ e.cleanIndex
        /\ e.info.inferredParser \in {"null", "typescript"}
        /\ Len(e.ranges) <= 1
        /\ e.engine \in {"id", "upper", "throwSyntax", "throwPrettier"}
        /\ e.writeFails = "never"}

EnvsAt(i, text, opts, strategy) ==
    IF i = watch THEN Envs(text, opts, strategy) ELSE FewEnvs(text, opts, strategy)

NoLast ==
    [file |-> "none", strategy |-> "none", text0 |-> <<>>,
     env |-> [cleanIndex |-> TRUE, info |-> [ignored |-> TRUE, inferredParser |-> "null"],
              ranges |-> <<>>, engine |-> "id", writeFails |-> "never"],
     ret |-> TRUE, threw |-> "none", ctx |-> Ctx0(<<>>)]

MarkerOff ==
    /\ mPc = "off" /\ mText = <<>> /\ mRanges = <<>> /\ mParser = "json"
    /\ mMarked = [ok |-> FALSE, result |-> <<>>]
    /\ mFormatted = <<>> /\ mMerged = NoOutcome

RECURSIVE TotalLen(_, _)
TotalLen(d, i) == IF i > Len(d) THEN 0 ELSE Len(d[i]) + TotalLen(d, i + 1)

\* the state when runPrettier(options) is called
Init ==
    /\ pc = "start"
    /\ options \in [check : BOOLEAN, staged : BOOLEAN,
                    lines : {"false", "true", "experimental"}]
    /\ totalLinesVariant \in {1, 2}
    /\ \E n \in 0..Len(FileNames) :
          /\ targetFiles = SubSeq(FileNames, 1, n)
          /\ disk \in {d \in [1..n -> FileTexts] :
                          TotalLen(d, 1) + 2 * (n - 1) <= MaxDisk}
          /\ watch \in IF n = 0 THEN {0} ELSE 1..n
    /\ idx = 1
    /\ allOk = TRUE
    /\ hasExitingError = FALSE
    /\ processed = <<>>
    /\ writes = <<>>
    /\ last = NoLast
    /\ MarkerOff
    /\ UnitOff

\* ------------------------------------------------------------ run: actions
\* const targetFiles = resolveTargetFiles(options); if there are none, log
\* and return
RunStart ==
    /\ pc = "start"
    /\ pc' = IF Len(targetFiles) = 0 THEN "noFiles" ELSE "loop"
    /\ last' = IF Len(targetFiles) = 0
               THEN [NoLast EXCEPT !.ctx = Log(@, Entry("info", "none", "No files to process."))]
               ELSE last
    /\ UNCHANGED <<options, totalLinesVariant, targetFiles, idx, disk, allOk,
                   hasExitingError, processed, writes, watch, mvars, uvars>>

\* the body of the for-loop for one file, `out` being what the strategy did
Iterate(file, strategy, env, out) ==
    /\ processed' = Append(processed, file)
    /\ idx' = idx + 1
    /\ disk' = [disk EXCEPT ![idx] = out.ctx.text]
    /\ writes' = writes \o out.ctx.writes
    /\ allOk' = IF out.threw = "none" /\ ~out.ret THEN FALSE ELSE allOk
    /\ hasExitingError' =
          IF out.threw # "none" /\ IsExiting(out.threw) THEN TRUE ELSE hasExitingError
    /\ last' = IF idx # watch THEN last
               ELSE [file |-> file, strategy |-> strategy, text0 |-> disk[idx],
                     env |-> env, ret |-> out.ret, threw |-> out.threw,
                     ctx |-> IF out.threw # "none"
                             THEN Log(out.ctx, Entry("error", file, out.threw))
                             ELSE out.ctx]
    /\ UNCHANGED <<pc, options, totalLinesVariant, targetFiles, watch, mvars, uvars>>

IterateWholeFile ==
    /\ pc = "loop" /\ idx <= Len(targetFiles)
    /\ options.lines = "false"
    /\ \E env \in EnvsAt(idx, disk[idx], options, "whole") :
          Iterate(targetFiles[idx], "whole", env,
                  processWholeFile(targetFiles[idx], Ctx0(disk[idx]), options, env))

IterateFileByRanges ==
    /\ pc = "loop" /\ idx <= Len(targetFiles)
    /\ options.lines = "true"
    /\ \E env \in EnvsAt(idx, disk[idx], options, "ranges") :
          Iterate(targetFiles[idx], "ranges", env,
                  processFileByRanges(targetFiles[idx], Ctx0(disk[idx]), options, env,
                                      totalLinesVariant))

IterateRangesWithMarkers ==
    /\ pc = "loop" /\ idx <= Len(targetFiles)
    /\ options.lines = "experimental"
    /\ \E env \in EnvsAt(idx, disk[idx], options, "markers") :
          Iterate(targetFiles[idx], "markers", env,
                  processRangesWithMarkers(targetFiles[idx], Ctx0(disk[idx]), options,
                                           env, totalLinesVariant))

\* the end of the run, had it looked at the check result first
RunFinishCheckFirst ==
    /\ pc = "loop" /\ idx > Len(targetFiles)
    /\ pc' = IF options.check /\ ~allOk THEN "rejectedUnformatted"
             ELSE IF hasExitingError THEN "rejectedExiting"
             ELSE "resolved"
    /\ UNCHANGED <<options, totalLinesVariant, targetFiles, idx, disk, allOk,
                   hasExitingError, processed, writes, watch, last, mvars, uvars>>

\* after the loop: throw, or set process.exitCode = 0
RunFinish ==
    /\ pc = "loop" /\ idx > Len(targetFiles)
    /\ pc' = IF hasExitingError THEN "rejectedExiting"
             ELSE IF options.check /\ ~allOk THEN "rejectedUnformatted"
             ELSE "resolved"
    /\ UNCHANGED <<options, totalLinesVariant, targetFiles, idx, disk, allOk,
                   hasExitingError, processed, writes, watch, last, mvars, uvars>>

Next ==
    \/ RunStart
    \/ IterateWholeFile
    \/ IterateFileByRanges
    \/ IterateRangesWithMarkers
    \/ RunFinish

Spec == Init /\ [][Next]_vars

\* ------------------------------------------------------ LineOffsets alone
\* the line indexes getOffset is asked for
LineIndexes == (0 - 2)..(MaxLen + 3)

OffsetsInit ==
    /\ uPc = "start"
    /\ uIn \in [text : TextsUpTo(MarkerAlphabet, MaxLen)]
    /\ uOut = <<>>
    /\ RunOff /\ MarkerOff

\* const offsets = new LineOffsets(text)
OffsetsNew ==
    /\ uPc = "start"
    /\ uOut' = [offsets |-> LineOffsets(uIn.text), call |-> "new", arg |-> 0, result |-> 0]
    /\ uPc' = "built"
    /\ UNCHANGED <<uIn, mvars, rvars>>

\* offsets.getOffset(line)
OffsetsGetOffset ==
    /\ uPc = "built"
    /\ \E line \in LineIndexes :
          uOut' = [uOut EXCEPT !.call = "getOffset", !.arg = line,
                               !.result = getOffset(uOut.offsets, line)]
    /\ uPc' = "called"
    /\ UNCHANGED <<uIn, mvars, rvars>>

\* offsets.totalLines(), of either build
OffsetsTotalLines ==
    /\ uPc = "built"
    /\ \E variant \in {1, 2} :
          uOut' = [uOut EXCEPT !.call = "totalLines", !.arg = variant,
                               !.result = totalLines(variant, uOut.offsets)]
    /\ uPc' = "called"
    /\ UNCHANGED <<uIn, mvars, rvars>>

OffsetsNext == OffsetsNew \/ OffsetsGetOffset \/ OffsetsTotalLines

SpecOffsets == OffsetsInit /\ [][OffsetsNext]_vars

\* the number of characters before line i (from 0): those up to and including
\* the i-th "\n", every line terminator ending with one
RECURSIVE LineStart(_, _, _)
LineStart(text, i, p) ==
    IF i = 0 THEN p - 1
    ELSE IF p > Len(text) THEN 0 - 1
    ELSE LineStart(text, IF text[p] = "\n" THEN i - 1 ELSE i, p + 1)

\* C15: for every text and every index i of one of its lines, getOffset(i) is
\* the number of characters that precede line i: the earlier lines and their
\* terminators, "\n" counting 1 and "\r\n" counting 2.
C15_OffsetsAreLineStarts ==
    (/\ uPc = "called" /\ uOut.call = "getOffset"
     /\ 0 <= uOut.arg /\ uOut.arg < Len(SplitLines(uIn.text)))
        => uOut.result = LineStart(uIn.text, uOut.arg, 1)

C15_Witness ==
    /\ uPc = "called" /\ uOut.call = "getOffset"
    /\ uIn.text = <<"\r", "\n", "\n">> /\ uOut.arg = 2 /\ uOut.result = 3

\* C16: getOffset returns 0 for every index below 0 and every index past the
\* last stored entry, whatever the text.
C16_OutOfBoundsIsZero ==
    (/\ uPc = "called" /\ uOut.call = "getOffset"
     /\ uOut.arg < 0 \/ uOut.arg >= Len(uOut.offsets))
        => uOut.result = 0

C16_Witness ==
    /\ uPc = "called" /\ uOut.call = "getOffset"
    /\ Len(uIn.text) = MaxLen /\ uOut.arg = Len(uOut.offsets) /\ uOut.result = 0

\* C17: totalLines() is the number of lines of the text that hold content or
\* end with a line terminator (3 for "a\nb\nc\n"), in either build.
C17_TotalLinesCountsLines ==
    (uPc = "called" /\ uOut.call = "totalLines")
        => uOut.result = Len(Lines(uIn.text))

\* C26: for the empty text the constructor returns, the stored offsets are [0]
\* or [0, 0], and getOffset answers 0 for every line index.
C26_EmptyTextDegenerates ==
    (uPc \in {"built", "called"} /\ uIn.text = <<>>)
        => /\ uOut.offsets \in {<<0>>, <<0, 0>>}
           /\ (uPc = "called" /\ uOut.call = "getOffset") => uOut.result = 0

\* ------------------------------------------------------ the span of a range
\* a text as processFileByRanges reads it and one range of the diff; the diff
\* is not taken from the text read (with --staged it is the index against
\* HEAD), so the range may end past the last line of the text
SpanInit ==
    /\ uPc = "start"
    /\ uIn \in [text : TextsUpTo(MarkerAlphabet, MaxLen), range : Ranges]
    /\ uOut = <<>>
    /\ RunOff /\ MarkerOff

\* const lineOffsets = new LineOffsets(originalText)
SpanNewOffsets ==
    /\ uPc = "start"
    /\ uOut' = [offsets |-> LineOffsets(uIn.text), start |-> 0, end |-> 0]
    /\ uPc' = "built"
    /\ UNCHANGED <<uIn, mvars, rvars>>

\* start and end of one iteration of the loop
SpanOfRange ==
    /\ uPc = "built"
    /\ uOut' = [uOut EXCEPT !.start = Span(uOut.offsets, uIn.range).start,
                            !.end = Span(uOut.offsets, uIn.range).end]
    /\ uPc' = "called"
    /\ UNCHANGED <<uIn, mvars, rvars>>

SpanNext == SpanNewOffsets \/ SpanOfRange

SpecSpan == SpanInit /\ [][SpanNext]_vars

\* C27: for every text and every range with lower >= 1, ranges that end at or
\* past the last line included, the span handed to the formatter satisfies
\* 0 <= rangeStart <= rangeEnd <= length of the text.
C27_SpanWithinText ==
    uPc = "called" =>
        /\ 0 <= uOut.start
        /\ uOut.start <= uOut.end
        /\ uOut.end <= Len(uIn.text)

\* ------------------------------------------------------ Range alone
\* the bounds a Range is built from, and the values it is asked about
RangeBounds == 0..(MaxLine + 2)

RangeInit ==
    /\ uPc = "start"
    /\ uIn \in [lower : RangeBounds, upper : RangeBounds]
    /\ uOut = <<>>
    /\ RunOff /\ MarkerOff

\* new Range(lower, upper)
RangeNew ==
    /\ uPc = "start"
    /\ IF RangeOk(uIn.lower, uIn.upper)
       THEN /\ uOut' = [range |-> Range(uIn.lower, uIn.upper), thrown |-> "none",
                        call |-> "new", arg |-> 0, result |-> 0]
            /\ uPc' = "built"
       ELSE /\ uOut' = [range |-> <<>>, thrown |-> "TypeError",
                        call |-> "new", arg |-> 0, result |-> 0]
            /\ uPc' = "thrown"
    /\ UNCHANGED <<uIn, mvars, rvars>>

\* range.rangeStart()
RangeRangeStart ==
    /\ uPc \in {"built", "called"}
    /\ uOut' = [uOut EXCEPT !.call = "rangeStart", !.arg = 0,
                            !.result = rangeStart(uOut.range)]
    /\ uPc' = "called"
    /\ UNCHANGED <<uIn, mvars, rvars>>

\* range.rangeEnd()
RangeRangeEnd ==
    /\ uPc \in {"built", "called"}
    /\ uOut' = [uOut EXCEPT !.call = "rangeEnd", !.arg = 0,
                            !.result = rangeEnd(uOut.range)]
    /\ uPc' = "called"
    /\ UNCHANGED <<uIn, mvars, rvars>>

\* range.isWithinRange(n)
RangeIsWithinRange ==
    /\ uPc \in {"built", "called"}
    /\ \E n \in RangeBounds :
          uOut' = [uOut EXCEPT !.call = "isWithinRange", !.arg = n,
                               !.result = isWithinRange(uOut.range, n)]
    /\ uPc' = "called"
    /\ UNCHANGED <<uIn, mvars, rvars>>

RangeNext == RangeNew \/ RangeRangeStart \/ RangeRangeEnd \/ RangeIsWithinRange

SpecRange == RangeInit /\ [][RangeNext]_vars

\* C18: new Range(lower, upper) throws a TypeError exactly when lower >= upper;
\* a constructed range answers rangeStart() with lower - 1 and rangeEnd() with
\* upper - 1, and still holds the bounds it was built from after any call.
C18_RangeValidityAndProjections ==
    /\ uPc = "thrown" => uIn.lower >= uIn.upper /\ uOut.thrown = "TypeError"
    /\ uPc \in {"built", "called"} =>
          /\ uIn.lower < uIn.upper
          /\ uOut.thrown = "none"
          /\ uOut.range = [lower |-> uIn.lower, upper |-> uIn.upper]
    /\ (uPc = "called" /\ uOut.call = "rangeStart") => uOut.result = uIn.lower - 1
    /\ (uPc = "called" /\ uOut.call = "rangeEnd") => uOut.result = uIn.upper - 1

C18_Witness ==
    /\ uPc = "called" /\ uOut.call = "rangeEnd"
    /\ uIn = [lower |-> 2, upper |-> 5] /\ uOut.result = 4

\* C19: for a constructed Range(lower, upper) and every n, isWithinRange(n) is
\* true exactly when lower <= n < upper.
C19_Containment ==
    (uPc = "called" /\ uOut.call = "isWithinRange")
        => (uOut.result <=> (uIn.lower <= uOut.arg /\ uOut.arg < uIn.upper))

C19_Witness ==
    /\ uPc = "called" /\ uOut.call = "isWithinRange"
    /\ uIn = [lower |-> 2, upper |-> 5] /\ uOut.arg = 4 /\ uOut.result = TRUE

\* ------------------------------------------------------ resolveTargetFiles
\* The three versions of resolveTargetFiles the repository holds.
Versions == {"part_004:415", "processors.ts:83", "part_004:711"}

Paths == {"a.ts", "b.js", ".c.ts"}

\* path.extname(file).slice(1)
ExtName(file) == IF file = "b.js" THEN "js" ELSE "ts"

\* path.basename(file).startsWith(".")
DotFile(file) == file = ".c.ts"

\* micromatch.match(files, pattern, { dot: true }) for the pattern "*.ts"
Matches(file, pattern) == pattern = "*.ts" /\ ExtName(file) = "ts"

\* Array.prototype.filter
RECURSIVE Filter(_, _)
Filter(files, keep) ==
    IF files = <<>> THEN <<>>
    ELSE (IF Head(files) \in keep THEN <<Head(files)>> ELSE <<>>)
         \o Filter(Tail(files), keep)

\* Array.from(new Set(files)): the first occurrence of each path, in order
RECURSIVE Dedupe(_, _)
Dedupe(files, seen) ==
    IF files = <<>> THEN <<>>
    ELSE IF Head(files) \in seen THEN Dedupe(Tail(files), seen)
    ELSE <<Head(files)>> \o Dedupe(Tail(files), seen \cup {Head(files)})

\* resolveTargetFiles(options) of version v; `in` holds the options and what
\* getDiffFileList(true), getDiffFileList(false), getUntrackedFileList(false)
\* and fs.statSync answer
resolveTargetFiles(v, in) ==
    LET same == IF v = "part_004:415" THEN in.staged = in.changed
                ELSE in.staged # in.changed
        fromStaged == IF same \/ in.staged THEN in.stagedFiles ELSE <<>>
        fromChanged == IF same \/ in.changed THEN in.changedFiles ELSE <<>>
        fromUntracked == IF v = "part_004:415" /\ in.trackedOnly
                         THEN <<>> ELSE in.untrackedFiles
        files == Dedupe(fromStaged \o fromChanged \o fromUntracked, {})
        byExt == IF in.extensions # {}
                 THEN Filter(files, {f \in Paths : ExtName(f) \in in.extensions})
                 ELSE files
        regular == CASE v = "part_004:415" ->
                           Filter(byExt, {f \in Paths : f \notin in.dirs /\ ~DotFile(f)})
                     [] v = "processors.ts:83" ->
                           Filter(byExt, {f \in Paths : f \notin in.dirs})
                     [] OTHER -> byExt
    IN IF v = "part_004:415" /\ in.pattern # "none"
       THEN Filter(regular, {f \in Paths : Matches(f, in.pattern)})
       ELSE regular

\* the file lists git answers with
RECURSIVE PathListsUpTo(_)
PathListsUpTo(n) ==
    IF n = 0 THEN {<<>>}
    ELSE LET shorter == PathListsUpTo(n - 1)
         IN shorter \cup
            {Append(p[1], p[2]) : p \in {x \in shorter : Len(x) = n - 1} \X Paths}

TargetsInit ==
    /\ uPc = "start"
    /\ uIn \in [version : Versions,
                 staged : BOOLEAN, changed : BOOLEAN, trackedOnly : BOOLEAN,
                 extensions : {{}, {"ts"}}, pattern : {"none", "*.ts"},
                 stagedFiles : PathListsUpTo(MaxList),
                 changedFiles : PathListsUpTo(MaxList),
                 untrackedFiles : PathListsUpTo(MaxList),
                 dirs : {{}, {"b.js"}}]
    /\ uOut = <<>>
    /\ RunOff /\ MarkerOff

\* const targetFiles = resolveTargetFiles(options)
ResolveTargetFiles ==
    /\ uPc = "start"
    /\ uOut' = resolveTargetFiles(uIn.version, uIn)
    /\ uPc' = "called"
    /\ UNCHANGED <<uIn, mvars, rvars>>

TargetsNext == ResolveTargetFiles

SpecTargets == TargetsInit /\ [][TargetsNext]_vars

\* the members of a list
Members(files) == {files[i] : i \in 1..Len(files)}

\* C14: with exactly one of staged / changed set, every file returned comes
\* from that flag's diff list or from the untracked list, never from the other
\* flag's list alone; and no path is returned twice.  For every version of
\* resolveTargetFiles.
C14_SelectionByFlags ==
    uPc = "called" =>
        /\ (uIn.staged /\ ~uIn.changed) =>
              Members(uOut) \subseteq Members(uIn.stagedFiles) \cup Members(uIn.untrackedFiles)
        /\ (uIn.changed /\ ~uIn.staged) =>
              Members(uOut) \subseteq Members(uIn.changedFiles) \cup Members(uIn.untrackedFiles)
        /\ \A i, j \in 1..Len(uOut) : i # j => uOut[i] # uOut[j]

\* ------------------------------------------------------ properties of the run
\* the watched file has been processed
Watched == last.file # "none"

Finished == pc \in {"resolved", "rejectedExiting", "rejectedUnformatted"}

\* line n (from 1) lies in one of the ranges
Covered(ranges, n) ==
    \E i \in 1..Len(ranges) : ranges[i].lower <= n /\ n < ranges[i].upper

\* C1: in apply mode, what the marker path writes agrees with the original
\* text on every line no range covers, the last line of a text without final
\* line terminator included (the terminator the marker path appends to such a
\* text is not counted as a change of a line); the engines of the model keep
\* the markers they are shown and the number of lines.
C1_FrameOutsideRanges ==
    (/\ Watched /\ last.strategy = "markers" /\ ~options.check
     /\ ~last.ctx.shortcut /\ last.ctx.markerError = "none"
     /\ InDocument(last.env.ranges, last.text0)
     /\ last.ctx.writes # <<>>)
        => LET o == Lines(WithFinalNewline(last.text0))
               w == Lines(last.ctx.writes[1].text)
           IN \A n \in 1..Len(o) :
                 ~Covered(last.env.ranges, n) => (n <= Len(w) /\ w[n] = o[n])

\* C2: in check mode no strategy calls the file write, and the file is left
\* as it was: whatever the engine answers, through the marker path, its
\* fallback and the whole-document shortcut alike.
C2_CheckNeverWrites ==
    options.check =>
        /\ writes = <<>>
        /\ Watched => (last.ctx.writes = <<>> /\ last.ctx.text = last.text0)
        /\ pc # "start" =>
              \A i \in 1..Len(disk) : i < idx /\ i = watch => disk[i] = last.text0

C2_Witness ==
    /\ options.check /\ Watched /\ last.strategy = "markers"
    /\ last.ctx.markerError = "throwSyntax"
    /\ last.threw = "none" /\ ~last.ret
    /\ Len(last.ctx.calls) >= 2

\* C7: when insertMarkers, the engine on the marked text or
\* mergeMarkedSections fails, the error is logged with the file's name first,
\* and the strategy ends as processFileByRanges ends for that file, options
\* and collaborators: same result or same error, same text on disk; when the
\* fallback returns, nothing is thrown and the error is no exiting error.
C7_MarkerFallback ==
    (/\ Watched /\ last.strategy = "markers"
     /\ last.ctx.markerError \in {"unsupported", "mismatch"} \cup Throwing)
        => LET fb == processFileByRanges(last.file, Ctx0(last.text0), options,
                                         last.env, totalLinesVariant)
           IN /\ last.ctx.log # <<>>
              /\ last.ctx.log[1] = Entry("error", last.file, last.ctx.markerError)
              /\ last.ret = fb.ret
              /\ last.threw = fb.threw
              /\ last.ctx.text = fb.ctx.text
              /\ fb.threw = "none" =>
                    /\ last.threw = "none"
                    /\ Len(targetFiles) = 1 => ~hasExitingError

C7_Witness ==
    /\ Watched /\ last.strategy = "markers" /\ ~options.check
    /\ last.env.engine = "chokeOnMarker"
    /\ last.ctx.markerError = "throwSyntax"
    /\ last.threw = "none"
    /\ last.ctx.text # last.text0

\* C8: when the engine throws while a file is processed, the files after it
\* are processed all the same and the run ends rejected, whatever the error
\* and in check and apply mode alike.
C8_EngineErrorFailsRun ==
    (Finished /\ Watched /\ last.threw \in Throwing)
        => (processed = targetFiles /\ pc # "resolved")

OneRangeOverAllLines ==
    /\ Watched /\ last.strategy \in {"ranges", "markers"}
    /\ Len(Lines(last.text0)) >= 1
    /\ last.env.ranges = <<Range(1, Len(Lines(last.text0)) + 1)>>

\* C11: when the diff gives one range from line 1 to the last line of the
\* file, processFileByRanges and processRangesWithMarkers end as
\* processWholeFile ends on that file: same result or error, same writes and
\* text on disk, same log entries, the engine called on the whole text only
\* and no marker inserted.
C11_ShortcutIsWholeFile ==
    OneRangeOverAllLines =>
        LET wf == processWholeFile(last.file, Ctx0(last.text0), options, last.env)
            wfLog == IF wf.threw # "none"
                     THEN Append(wf.ctx.log, Entry("error", last.file, wf.threw))
                     ELSE wf.ctx.log
        IN /\ last.ret = wf.ret /\ last.threw = wf.threw
           /\ last.ctx.writes = wf.ctx.writes
           /\ last.ctx.text = wf.ctx.text
           /\ last.ctx.log = wfLog
           /\ last.ctx.calls = wf.ctx.calls
           /\ \A i \in 1..Len(last.ctx.calls) :
                 last.ctx.calls[i].whole /\ last.ctx.calls[i].text = last.text0
           /\ last.ctx.markerError = "none"

C11_Witness ==
    /\ OneRangeOverAllLines /\ last.strategy = "markers" /\ ~options.check
    /\ totalLinesVariant = 1 /\ EndsWithNewline(last.text0)
    /\ Len(Lines(last.text0)) = 2
    /\ last.ctx.shortcut /\ last.ctx.writes # <<>> /\ last.ctx.text # last.text0

\* C12: within one run no file is written more than once: of the
\* fs.writeFileSync calls of the run, at most one per file puts anything into
\* the file (a call that fails before writing anything is not counted).
C12_WrittenAtMostOnce ==
    \A i, j \in 1..Len(writes) :
        (/\ i # j
         /\ writes[i].ok \/ writes[i].partial
         /\ writes[j].ok \/ writes[j].partial)
            => writes[i].file # writes[j].file

\* the log of the watched file holds an entry of this kind without a range
Logged(kind) ==
    \E i \in 1..Len(last.ctx.log) : last.ctx.log[i] = Entry(kind, last.file, NoRange)

\* C13: processWholeFile on a file that is neither ignored nor skipped, the
\* engine returning: the engine is called once, on the whole text.  In apply
\* mode the file is written, with the formatted text, and a 'formatted' entry
\* is logged exactly when the formatted text differs, and the result is true.
\* In check mode nothing is written, and exactly when the texts differ a
\* 'needs formatting' entry without range is logged and the result is false.
C13_WholeFile ==
    (/\ Watched /\ last.strategy = "whole"
     /\ ~(options.staged /\ ~last.env.cleanIndex)
     /\ ~(last.env.info.ignored \/ last.env.info.inferredParser = "null")
     /\ last.env.engine \in Returning /\ last.env.writeFails = "never")
        => /\ Len(last.ctx.calls) = 1
           /\ last.ctx.calls[1].whole /\ last.ctx.calls[1].text = last.text0
           /\ LET formatted == last.ctx.calls[1].result
                  differs == formatted # last.text0
              IN /\ last.threw = "none"
                 /\ ~options.check =>
                       /\ differs <=> last.ctx.writes # <<>>
                       /\ differs => (/\ Len(last.ctx.writes) = 1
                                      /\ last.ctx.writes[1].text = formatted
                                      /\ last.ctx.text = formatted)
                       /\ differs <=> Logged("formatted")
                       /\ last.ret
                 /\ options.check =>
                       /\ last.ctx.writes = <<>>
                       /\ differs <=> Logged("checked")
                       /\ differs <=> ~last.ret

\* the marker path of the watched file inserted markers and called the engine
MarkerPathRan ==
    /\ Watched /\ last.strategy = "markers"
    /\ ~last.ctx.shortcut
    /\ last.ctx.calls # <<>> /\ last.ctx.calls[1].whole

\* C21: when the diff gives more than one range, insertMarkers receives them
\* from the highest starting line to the lowest, so that the text it hands to
\* the engine holds two markers for every range.
C21_InsertionOrderDescending ==
    (MarkerPathRan /\ Len(last.env.ranges) > 1 /\ InDocument(last.env.ranges, last.text0))
        => /\ \A i \in 1..(Len(last.env.ranges) - 1) :
                 rangeStart(last.env.ranges[i]) > rangeStart(last.env.ranges[i + 1])
           /\ CountMarkers(last.ctx.calls[1].text,
                           getMarker(last.env.info.inferredParser).marker, 0)
                  = 2 * Len(last.env.ranges)

\* the offset-range strategy of the watched file went through its loop
RangesLoopRan ==
    /\ Watched /\ last.strategy = "ranges"
    /\ ~last.ctx.shortcut
    /\ ~(last.env.info.ignored \/ last.env.info.inferredParser = "null")

\* the text the loop ended with: what its last formatter call returned
FinalText ==
    IF last.ctx.calls = <<>> THEN last.text0
    ELSE last.ctx.calls[Len(last.ctx.calls)].result

\* C22: processFileByRanges calls the formatter once per range, in the order
\* of the diff's ranges; the first call gets the original text, every later
\* call the text the call before it returned; what is compared with the
\* original, and written in apply mode, is what the last call returned.
C22_CallsChainInOrder ==
    RangesLoopRan =>
        LET calls == last.ctx.calls
            ranges == last.env.ranges
        IN /\ Len(calls) <= Len(ranges)
           /\ last.threw = "none" => Len(calls) = Len(ranges)
           /\ \A i \in 1..Len(calls) :
                 /\ ~calls[i].whole
                 /\ calls[i].from = LineStart(last.text0, ranges[i].lower - 1, 1)
                 /\ calls[i].text = IF i = 1 THEN last.text0 ELSE calls[i - 1].result
           /\ last.threw = "none" =>
                 /\ last.ret <=> (FinalText = last.text0)
                 /\ (~options.check /\ FinalText # last.text0)
                       => /\ Len(last.ctx.writes) = 1
                          /\ last.ctx.writes[1].text = FinalText
                 /\ (options.check \/ FinalText = last.text0) => last.ctx.writes = <<>>

C22_Witness ==
    /\ RangesLoopRan /\ last.threw = "none" /\ ~options.check
    /\ Len(last.env.ranges) = 2 /\ Len(last.ctx.calls) = 2
    /\ last.ctx.calls[1].result # last.text0
    /\ last.ctx.calls[2].result # last.ctx.calls[1].result
    /\ last.ctx.text = last.ctx.calls[2].result

\* C23: the span handed to the formatter for a range is the one a line-offset
\* index built from the text of that same call gives for the range's lines.
C23_SpanFromCurrentText ==
    RangesLoopRan =>
        \A i \in 1..Len(last.ctx.calls) :
            LET call == last.ctx.calls[i]
                current == LineOffsets(call.text)
            IN /\ call.from = getOffset(current, rangeStart(last.env.ranges[i]))
               /\ call.to = getOffset(current, rangeEnd(last.env.ranges[i])) - 1

\* a 'needs formatting' entry with this line span is in the watched file's log
LoggedChecked(range) ==
    \E k \in 1..Len(last.ctx.log) :
        last.ctx.log[k].kind = "checked" /\ last.ctx.log[k].range = range

\* C24: in check mode, after each formatter call of the offset-range loop, an
\* entry "<lower>-<upper - 1>" is logged exactly when the slice [start, end)
\* of the text handed to that call differs from the same slice of the text
\* the call returned.
C24_CheckComparesPreCallText ==
    (RangesLoopRan /\ options.check) =>
        \A i \in 1..Len(last.ctx.calls) :
            LET call == last.ctx.calls[i]
                r == last.env.ranges[i]
            IN call.ok =>
                 (LoggedChecked(<<r.lower, r.upper - 1>>)
                    <=> Slice(call.text, call.from, call.to)
                           # Slice(call.result, call.from, call.to))

\* C25: when fs.writeFileSync fails inside a strategy, the strategy throws the
\* error to runPrettier's handler: it does not catch it, does not call the
\* formatter again and does not try another write for that file.
C25_WriteFailurePropagates ==
    (Watched /\ \E k \in 1..Len(last.ctx.writes) : ~last.ctx.writes[k].ok)
        => /\ last.threw = "io"
           /\ last.ctx.markerError = "none"
           /\ Len(last.ctx.writes) = 1
           /\ Len(last.ctx.calls) <= Max2(1, Len(last.env.ranges))

\* C29: the whole-document shortcut is taken only when the one range of the
\* diff covers every line of the file, whether or not the file ends with a
\* line terminator and whichever value totalLines() gives.
C29_ShortcutOnlyWhenCovered ==
    (Watched /\ last.ctx.shortcut) =>
        /\ Len(last.env.ranges) = 1
        /\ \A n \in 1..Len(Lines(last.text0)) : Covered(last.env.ranges, n)

\* C30: in check mode the marker path logs no 'needs formatting' entry and
\* returns true when the merged text is the original inside every range, as
\* it is with a formatter that leaves the marked text as it is.
C30_MarkerCheckIdentity ==
    (/\ MarkerPathRan /\ options.check
     /\ InDocument(last.env.ranges, last.text0)
     /\ last.ctx.markerError = "none"
     /\ last.ctx.calls[1].ok
     /\ last.ctx.calls[1].result = last.ctx.calls[1].text)
        => /\ \A k \in 1..Len(last.ctx.log) : last.ctx.log[k].kind # "checked"
           /\ last.threw = "none" /\ last.ret
====
